---- MODULE Spec2Model ----
(***************************************************************************)
(* Lifecycle of the asuna primary process and its workers: worker-pool     *)
(* sizing (asunaCores), startup handoff (execute), and the coordinated     *)
(* shutdown (setupWorkerPool, setupProcess, runExitHandlers,               *)
(* closeInstanceConnections).                                              *)
(*                                                                         *)
(* Processes: the primary is process 0; the i-th Worker constructed by     *)
(* execute() is process i (1-based handle; its pool key is worker#(i-1)).  *)
(***************************************************************************)
EXTENDS Integers, Sequences, FiniteSets, Bags, TLC

\* ------------------------------------------------------------------ bounds
MaxCores == 2        \* largest ASUNA_CORES / hardwareConcurrency value drawn
MaxSignals == 2      \* SIGINT/SIGTERM deliveries to the primary
MaxRegistrations == 2 \* onExit and addInstanceConnection calls, all processes
MaxListeners == 2     \* onMessage calls of application code, all processes
MaxPosts == 2         \* postMessage calls of application code, all processes
MaxCalls == 3         \* useCache, useMySQL and useQueue calls, all processes
MaxLoadedExits == 1  \* length of the handler array passed to loadExits

Primary == 0
WorkerIds == 1..MaxCores
Procs == 0..MaxCores

\* ------------------------------------------------------- JavaScript values
\* An environment variable is absent (<<>>) or holds a text (<<s>>).
Absent == <<>>
IntTexts == {ToString(n) : n \in (0 - MaxCores)..MaxCores}
OtherTexts == {"", "abc", "1.5"}
CoreTexts == IntTexts \cup OtherTexts

\* A JavaScript number: NaN, or a value counted in halves (1.5 is 3 halves).
NaN == [nan |-> TRUE, halves |-> 0]
Num(h) == [nan |-> FALSE, halves |-> h]

\* Number(v) for the values the environment variable is drawn from.
JsNumber(v) ==
  IF v = Absent THEN NaN                       \* Number(undefined)
  ELSE LET s == v[1] IN
       IF s = "" THEN Num(0)                   \* Number("") is 0
       ELSE IF s = "1.5" THEN Num(3)
       ELSE IF s \in IntTexts
            THEN Num(2 * (CHOOSE n \in (0 - MaxCores)..MaxCores : ToString(n) = s))
            ELSE NaN

IsInteger(x) == ~x.nan /\ x.halves % 2 = 0

asunaCoresNonNegative(e) ==
  LET envCount == JsNumber(e.cores) IN
  IF IsInteger(envCount) /\ envCount.halves >= 0
    THEN envCount.halves \div 2
    ELSE IF e.hw # 0 THEN e.hw ELSE 1

\* execute.ts asunaCores(): e.cores is Bun.env.ASUNA_CORES, e.hw is
\* navigator.hardwareConcurrency (0 stands for a falsy value).
asunaCores(e) ==
  LET envCount == JsNumber(e.cores) IN
  IF IsInteger(envCount) /\ envCount.halves > 0
    THEN envCount.halves \div 2
    ELSE IF e.hw # 0 THEN e.hw ELSE 1

\* ------------------------------------------------------------ configuration
\* The keys read when modules load: instance.ts reads INSTANCE_URL, cache.ts
\* reads REDIS_URL. A variable is Absent or <<text>>.
ConfigKeys == {"INSTANCE_URL", "REDIS_URL"}
ConfigTexts == {"", "_disabled_", "redis://cache"}
ProcessEnvs == [ConfigKeys -> {Absent} \cup {<<t>> : t \in ConfigTexts}]
FullEnv == [k \in ConfigKeys |-> <<"redis://cache">>]

getFalsyThrows(e, key) ==
  IF e[key] = Absent \/ e[key] = <<"">> THEN [threw |-> TRUE, value |-> ""]
  ELSE IF e[key] = <<"_disabled_">> THEN [threw |-> FALSE, value |-> ""]
  ELSE [threw |-> FALSE, value |-> e[key][1]]

\* config.ts get(key) over environment e: whether it throws, and the value
\* it returns when it does not.
get(e, key) ==
  IF e[key] = Absent THEN [threw |-> TRUE, value |-> ""]
  ELSE IF e[key] = <<"_disabled_">> THEN [threw |-> FALSE, value |-> ""]
  ELSE [threw |-> FALSE, value |-> e[key][1]]

\* ----------------------------------------------------------------- messages
\* A wire message and a payload are maps from field names to values.
EmptyMap == [k \in {} |-> ""]

\* { type, ...payload }: the fields of payload are spread after type.
toMessage(type, payload) ==
  [k \in {"type"} \cup DOMAIN payload |->
     IF k \in DOMAIN payload THEN payload[k] ELSE type]

\* const { type, ...payload } = event.data
PayloadWithType(data) == data

\* const { type, ...payload } = event.data
PayloadOf(data) == [k \in DOMAIN data \ {"type"} |-> data[k]]

workerKeySame(i) == "worker#0"
workerKeyOneBased(i) == "worker#" \o ToString(i + 1)

\* execute(): const workerKey = `worker#${i}`
workerKey(i) == "worker#" \o ToString(i)

\* Message types and payloads of application messages: a ping carries an
\* entry, a pong carries none.
UserTypes == {"ping", "pong"}
PayloadFor(t) == IF t = "ping" THEN [n |-> "1"] ELSE EmptyMap
AppMessages == {toMessage(t, PayloadFor(t)) : t \in UserTypes}

\* Payloads application code may pass to toMessage: any mapping, one with a
\* key named type included.
WirePayloads == {EmptyMap, [n |-> "1"], [type |-> "pong"]}
WireMessages == {toMessage(t, p) : t \in UserTypes, p \in WirePayloads}

\* A listener is its message type and whether it throws when called.
Listener(type, throws) == [type |-> type, throws |-> throws]

BootListenersShutdownOnly == <<Listener("shutdown", FALSE)>>

\* The listeners a worker registers while its script loads: setupProcess()
\* registers the 'shutdown' listener, then onMessage('startup', runWorker).
\* Both are async functions, which never throw into their caller.
BootListeners == <<Listener("shutdown", FALSE), Listener("startup", FALSE)>>

\* EventEmitter.emit: the listeners of the type are called in the order of
\* their registration; an exception of a listener leaves emit at once.
\* ls is the listener array, i the next index, called the indices called.
RECURSIVE EmitFrom(_, _, _, _)
EmitFrom(ls, type, i, called) ==
  IF i > Len(ls) THEN [called |-> called, threw |-> FALSE]
  ELSE IF ls[i].type # type THEN EmitFrom(ls, type, i + 1, called)
  ELSE IF ls[i].throws THEN [called |-> Append(called, i), threw |-> TRUE]
  ELSE EmitFrom(ls, type, i + 1, Append(called, i))

\* The record of messageBox.emit(type, payload) in process p.
Emission(p, ls, type, payload) ==
  LET e == EmitFrom(ls, type, 1, <<>>) IN
  [proc |-> p, type |-> type, payload |-> payload,
   called |-> e.called, threw |-> e.threw]

MaxRoutes == 2
MaxInits == 2        \* most init handlers passed to loadInits in all
RouteNames == <<"root", "example", "extra">>
RouteLists == {SubSeq(RouteNames, 1, n) : n \in 0..MaxRoutes}

VARIABLES
  env,                   \* [cores, hw, ipc]: the process environment, fixed
  workerStartupContext,  \* execute.ts: Map<string, unknown>
  execState,             \* execute(): "idle" | "awaitInit" | "resolved"
  executeWorkerCount,    \* execute(): const workerCount
  workerPool,            \* Map worker key -> worker handle
  spawned,               \* number of Worker objects constructed
  toWorker,              \* per worker: messages posted by the primary, in order
  workerRead,            \* per worker: how many of them were dispatched
  readySent,             \* number of process.send('ready') calls
  contextAtSpawn,        \* history: the context entries when spawning began
  exitStatus,            \* "running" | "exit0" | "exit1" | "killed"
  loadedExits,           \* <<>> or <<n>>: loadExits was called with n handlers
  poolSetup,             \* setupWorkerPool was called
  workerCount,           \* setupWorkerPool: const workerCount
  shutdownCount,         \* setupWorkerPool: let shutdownCount
  signalsSeen,           \* SIGINT/SIGTERM deliveries so far
  exitHandlers,          \* per process: size of instanceContext 'ExitHandlers'
  connectionPool,        \* per process: size of instanceContext 'ConnectionPool'
  runs,                  \* per process: the bag of exit-handler runs started
  toPrimary,             \* per worker: messages posted to the primary, in order
  primaryRead,           \* per worker: how many of them the primary handled
  serveState,            \* per worker: "none" | "registering" | "serving" | "failed"
  initPromises,          \* execute.ts initPromises: each promise's state, in order
  awaited,               \* execute(): how many of them its Promise.all was given
  processEnv,            \* the environment variables config.ts reads, fixed
  lastGet,               \* history: <<>> or the latest get(key) call and its outcome
  attempts,              \* per worker: worker.ts pendingPromises, each promise's state
  warnings,              \* per worker: the console.warn entries of runWorker, in order
  listeners,             \* per process: the listeners of messageBox, in order
  emitted,               \* history, per process: its messageBox.emit calls, in order
  instances,             \* history, per process: the resource objects constructed
  registry,              \* per process: instanceContext 'Cache' | 'MySQL' | 'Queue'
  calls                  \* history, per process: its useCache / useMySQL / useQueue calls

bootVars == <<workerStartupContext, execState, executeWorkerCount, workerPool,
              spawned, readySent, contextAtSpawn>>
regVars == <<exitHandlers, connectionPool>>
busVars == <<listeners, emitted>>
resVars == <<instances, registry, calls>>
cfgVars == <<processEnv, lastGet>>
initVars == <<initPromises, awaited>>
extVars == <<attempts, warnings, listeners, emitted, instances, registry, calls>>
coreVars == <<bootVars, toWorker, workerRead, exitStatus, loadedExits, poolSetup,
              workerCount, shutdownCount, signalsSeen, regVars, runs,
              toPrimary, primaryRead, serveState>>
vars == <<env, initPromises, awaited, processEnv, lastGet, workerStartupContext, execState, executeWorkerCount, workerPool, spawned, toWorker,
          workerRead, readySent, contextAtSpawn, exitStatus, loadedExits,
          poolSetup, workerCount, shutdownCount, signalsSeen, exitHandlers,
          connectionPool, runs, toPrimary, primaryRead, serveState, attempts, warnings,
          listeners, emitted, instances, registry, calls>>

InitAll(coreChoices, hwChoices, ipcChoices, envChoices, status) ==
  /\ env \in [cores : coreChoices, hw : hwChoices, ipc : ipcChoices]
  /\ processEnv \in envChoices
  /\ lastGet = <<>>
  /\ initPromises = <<>>
  /\ awaited = 0
  /\ workerStartupContext = EmptyMap
  /\ execState = "idle"
  /\ executeWorkerCount = 0
  /\ workerPool = EmptyMap
  /\ spawned = 0
  /\ toWorker = [w \in WorkerIds |-> <<>>]
  /\ workerRead = [w \in WorkerIds |-> 0]
  /\ readySent = 0
  /\ contextAtSpawn = EmptyMap
  /\ exitStatus = status
  /\ loadedExits = <<>>
  /\ poolSetup = FALSE
  /\ workerCount = 0
  /\ shutdownCount = 0
  /\ signalsSeen = 0
  /\ exitHandlers = [p \in Procs |-> 0]
  /\ connectionPool = [p \in Procs |-> 0]
  /\ runs = [p \in Procs |-> EmptyBag]
  /\ toPrimary = [w \in WorkerIds |-> <<>>]
  /\ primaryRead = [w \in WorkerIds |-> 0]
  /\ serveState = [w \in WorkerIds |-> "none"]
  /\ attempts = [w \in WorkerIds |-> <<>>]
  /\ warnings = [w \in WorkerIds |-> <<>>]
  /\ listeners = [p \in Procs |-> IF p = Primary THEN <<>> ELSE BootListeners]
  /\ emitted = [p \in Procs |-> <<>>]
  /\ instances = [p \in Procs |-> <<>>]
  /\ registry = [p \in Procs |-> EmptyMap]
  /\ calls = [p \in Procs |-> <<>>]

\* The primary's modules have loaded with every configuration key set.
InitWith(coreChoices, hwChoices, ipcChoices) ==
  InitAll(coreChoices, hwChoices, ipcChoices, {FullEnv}, "running")

\* The primary was started by a supervisor: process.send is defined.
InitOver(coreChoices, hwChoices) == InitWith(coreChoices, hwChoices, {TRUE})

Running == exitStatus = "running"

\* The processes that exist: the primary and the workers constructed so far.
Live == {Primary} \cup 1..spawned

\* The onExit and addInstanceConnection calls made so far.
RECURSIVE SumOver(_, _)
SumOver(f, S) ==
  IF S = {} THEN 0
  ELSE LET x == CHOOSE y \in S : TRUE IN f[x] + SumOver(f, S \ {x})
Registrations == SumOver(exitHandlers, Procs) + SumOver(connectionPool, Procs)

\* workerStartupContext.set(key, value)
MapSet(m, key, value) ==
  [k \in DOMAIN m \cup {key} |-> IF k = key THEN value ELSE m[k]]

\* execute.ts loadRoutes(routerNames)
loadRoutes(routerNames) ==
  /\ Running
  /\ workerStartupContext' = MapSet(workerStartupContext, "routerNames", routerNames)
  /\ UNCHANGED <<env, initVars, cfgVars, extVars, execState, executeWorkerCount, workerPool, spawned,
                 toWorker, workerRead, readySent, contextAtSpawn, exitStatus, loadedExits, poolSetup,
                 workerCount, shutdownCount, signalsSeen, regVars, runs,
                 toPrimary, primaryRead, serveState>>

\* An init handler returns nothing, returns a promise, or throws.
InitHandlerKinds == {"sync", "async", "throws"}
InitHandlerLists ==
  UNION {[1..n -> InitHandlerKinds] : n \in 1..MaxInits}

\* execute.ts loadInits(initHandlers): the map calls every handler in order
\* and turns a result that is no promise into Promise.resolve(); the promises
\* are pushed after the map. A handler that throws leaves loadInits before
\* the push, and the exception leaves the caller's module.
loadInits(handlers) ==
  /\ Running
  /\ Len(initPromises) + Len(handlers) <= MaxInits
  /\ IF \E i \in 1..Len(handlers) : handlers[i] = "throws"
       THEN /\ exitStatus' = "exit1"
            /\ UNCHANGED initPromises
       ELSE /\ initPromises' = initPromises \o
                 [i \in 1..Len(handlers) |->
                    IF handlers[i] = "sync" THEN "fulfilled" ELSE "pending"]
            /\ UNCHANGED exitStatus
  /\ UNCHANGED <<env, awaited, cfgVars, extVars, bootVars, toWorker, workerRead,
                 loadedExits, poolSetup, workerCount, shutdownCount, signalsSeen,
                 regVars, runs, toPrimary, primaryRead, serveState>>

\* The promise init handler i returned settles.
initSettled(i, ok) ==
  /\ Running
  /\ i \in 1..Len(initPromises)
  /\ initPromises[i] = "pending"
  /\ initPromises' = [initPromises EXCEPT ![i] = IF ok THEN "fulfilled" ELSE "rejected"]
  /\ UNCHANGED <<env, awaited, cfgVars, extVars, coreVars>>

InitsResolvedAnySettled(ps, n) == \A i \in 1..n : ps[i] # "pending"

\* Promise.all over the first n promises of ps has fulfilled.
InitsResolved(ps, n) == \A i \in 1..n : ps[i] = "fulfilled"

\* Promise.all over the first n promises of ps has rejected.
InitsRejected(ps, n) == \E i \in 1..n : ps[i] = "rejected"

\* execute(), up to its await of Promise.all(initPromises): Promise.all is
\* given the promises the array holds at this moment.
executeCall ==
  /\ Running
  /\ execState = "idle"
  /\ execState' = "awaitInit"
  /\ awaited' = Len(initPromises)
  /\ UNCHANGED <<env, initPromises, cfgVars, extVars, workerStartupContext, executeWorkerCount, workerPool,
                 spawned, toWorker, workerRead, readySent, contextAtSpawn,
                 exitStatus, loadedExits,
                 poolSetup, workerCount, shutdownCount, signalsSeen, regVars,
                 runs, toPrimary, primaryRead, serveState>>

ReadyCallsAlways(e) == 1

\* process.send?.('ready'): the calls of process.send it makes
ReadyCalls(e) == IF e.ipc THEN 1 ELSE 0

StartupPayloadFirstOnly(i) == IF i = 0 THEN workerStartupContext ELSE EmptyMap

\* The payload of the startup message execute() posts in loop iteration i:
\* Object.fromEntries(workerStartupContext).
StartupPayload(i) == workerStartupContext

\* The loop condition of execute(): i < workerCount.
SpawnMore(i, count) == i < count

\* The spawn loop of execute() from iteration i on: st is [pool, chans, made].
RECURSIVE SpawnLoop(_, _, _)
SpawnLoop(i, count, st) ==
  IF SpawnMore(i, count)
    THEN LET worker == st.made + 1 IN   \* new Worker(workerScriptUrl)
         SpawnLoop(i + 1, count,
           [pool  |-> MapSet(st.pool, workerKey(i), worker),
            chans |-> [st.chans EXCEPT ![worker] =
                         Append(@, toMessage("startup", StartupPayload(i)))],
            made  |-> worker])
    ELSE st

\* execute(), after the await: the spawn loop, the ready event, the result.
executeSpawn ==
  /\ Running
  /\ execState = "awaitInit"
  /\ InitsResolved(initPromises, awaited)
  /\ LET workerCount_ == asunaCores(env)
         st == SpawnLoop(0, workerCount_,
                         [pool |-> EmptyMap, chans |-> toWorker, made |-> spawned]) IN
     /\ executeWorkerCount' = workerCount_
     /\ spawned' = st.made
     /\ workerPool' = st.pool
     /\ toWorker' = st.chans
  /\ contextAtSpawn' = workerStartupContext
  /\ readySent' = readySent + ReadyCalls(env)
  /\ execState' = "resolved"
  /\ UNCHANGED <<env, initVars, cfgVars, extVars, workerStartupContext, workerRead, exitStatus, loadedExits,
                 poolSetup, workerCount, shutdownCount, signalsSeen, regVars,
                 runs, toPrimary, primaryRead, serveState>>

\* execute(): the awaited Promise.all rejects, and so does execute().
executeRejected ==
  /\ Running
  /\ execState = "awaitInit"
  /\ InitsRejected(initPromises, awaited)
  /\ execState' = "rejected"
  /\ UNCHANGED <<env, initVars, cfgVars, extVars, workerStartupContext, executeWorkerCount,
                 workerPool, spawned, toWorker, workerRead, readySent, contextAtSpawn,
                 exitStatus, loadedExits, poolSetup, workerCount, shutdownCount,
                 signalsSeen, regVars, runs, toPrimary, primaryRead, serveState>>

\* ------------------------------------------------------------ registration
\* instance.ts onExit(handler), in process p
onExit(p) ==
  /\ Running
  /\ p \in Live
  /\ Registrations < MaxRegistrations
  /\ exitHandlers' = [exitHandlers EXCEPT ![p] = @ + 1]
  /\ UNCHANGED <<env, initVars, cfgVars, extVars, bootVars, toWorker, workerRead, exitStatus, loadedExits,
                 poolSetup, workerCount, shutdownCount, signalsSeen,
                 connectionPool, runs, toPrimary, primaryRead, serveState, attempts, warnings,
          listeners, emitted, instances, registry, calls>>

\* instance.ts addInstanceConnection(connection), in process p
addInstanceConnection(p) ==
  /\ Running
  /\ p \in Live
  /\ Registrations < MaxRegistrations
  /\ connectionPool' = [connectionPool EXCEPT ![p] = @ + 1]
  /\ UNCHANGED <<env, initVars, cfgVars, extVars, bootVars, toWorker, workerRead, exitStatus, loadedExits,
                 poolSetup, workerCount, shutdownCount, signalsSeen,
                 exitHandlers, runs, toPrimary, primaryRead, serveState>>

\* execute.ts loadExits(exitHandlers): n is the length of the array passed.
loadExits(n) ==
  /\ Running
  /\ loadedExits = <<>>
  /\ loadedExits' = <<n>>
  /\ UNCHANGED <<env, initVars, cfgVars, extVars, bootVars, toWorker, workerRead, exitStatus, poolSetup,
                 workerCount, shutdownCount, signalsSeen, regVars, runs,
                 toPrimary, primaryRead, serveState>>

\* instance.ts setupWorkerPool(workerPool), called with the pool that
\* execute() resolved to.
setupWorkerPool ==
  /\ Running
  /\ execState = "resolved"
  /\ ~poolSetup
  /\ poolSetup' = TRUE
  /\ shutdownCount' = 0
  /\ workerCount' = Cardinality(DOMAIN workerPool)
  /\ UNCHANGED <<env, initVars, cfgVars, extVars, bootVars, toWorker, workerRead, exitStatus, loadedExits,
                 signalsSeen, regVars, runs, toPrimary, primaryRead, serveState>>

\* ---------------------------------------------------------- exit-handler runs
\* A run is one call of runExitHandlers (kind "runExitHandlers") or of the
\* exitHandler closure of loadExits (kind "loadExits"):
\*   of          length of the handler array the run maps over
\*   invoked     handlers called by the map
\*   rejects     some called handler returned a promise that rejects
\*   closeCalled connections on which close() was called
\*   pc          "settling": awaiting the handlers' promises
\*               "closing":  awaiting the close() of connection closeCalled
\*               "rejected" / "resolved": the run's promise has settled
Run(kind, n, invoked, rejects, pc) ==
  [kind |-> kind, of |-> n, invoked |-> invoked, rejects |-> rejects,
   closeCalled |-> 0, pc |-> pc]

\* exitHandlers.map((f) => f()): every handler is called in order; a handler
\* that throws synchronously ends the map, and with it the async function.
StartedRuns(kind, n) ==
  {Run(kind, n, n, r, "settling") : r \in IF n > 0 THEN BOOLEAN ELSE {FALSE}}
    \cup {Run(kind, n, j, FALSE, "rejected") : j \in 1..n}

\* Run r of process p starts, and run r of process p becomes run r2.
AddRun(p, r) == runs' = [runs EXCEPT ![p] = @ (+) SetToBag({r})]
SetRun(p, r, r2) == runs' = [runs EXCEPT ![p] = (@ (-) SetToBag({r})) (+) SetToBag({r2})]
RunsOf(p) == BagToSet(runs[p])

\* The worker handles held by the pool.
PoolWorkers == {workerPool[k] : k \in DOMAIN workerPool}

handleExitSignalAsStartup(chans) ==
  [w \in WorkerIds |->
     IF w \in PoolWorkers
       THEN Append(chans[w], toMessage("startup", workerStartupContext))
       ELSE chans[w]]

handleExitSignalEveryChannel(chans) ==
  [w \in WorkerIds |-> Append(chans[w], toMessage("shutdown", EmptyMap))]

\* handleExitSignal: workerPool.forEach(worker.postMessage(shutdown))
handleExitSignal(chans) ==
  [w \in WorkerIds |->
     IF w \in PoolWorkers
       THEN Append(chans[w], toMessage("shutdown", EmptyMap))
       ELSE chans[w]]

\* A SIGINT or SIGTERM reaches the primary: every listener registered with
\* process.on runs (the loadExits listener, handleExitSignal); with no
\* listener the signal's default action ends the process.
signal ==
  /\ Running
  /\ signalsSeen < MaxSignals
  /\ signalsSeen' = signalsSeen + 1
  /\ IF loadedExits = <<>> /\ ~poolSetup
       THEN exitStatus' = "killed" /\ UNCHANGED <<runs, toWorker>>
       ELSE /\ UNCHANGED exitStatus
            /\ IF loadedExits # <<>>
                 THEN \E r \in StartedRuns("loadExits", loadedExits[1]) :
                        AddRun(Primary, r)
                 ELSE UNCHANGED runs
            /\ toWorker' = IF poolSetup THEN handleExitSignal(toWorker) ELSE toWorker
  /\ UNCHANGED <<env, initVars, cfgVars, extVars, bootVars, workerRead, loadedExits, poolSetup, workerCount,
                 shutdownCount, regVars, toPrimary, primaryRead, serveState>>

\* worker.ts runWorker(message) up to its await: loadRoutes pushes one promise
\* per router name onto pendingPromises. A message without routerNames makes
\* routerNames.map throw, which rejects runWorker.
runWorker(w, message) ==
  IF "routerNames" \in DOMAIN message
    THEN /\ attempts' = [attempts EXCEPT ![w] =
                           @ \o [i \in 1..Len(message.routerNames) |-> "pending"]]
         /\ serveState' = [serveState EXCEPT ![w] = "registering"]
    ELSE /\ serveState' = [serveState EXCEPT ![w] = "failed"]
         /\ UNCHANGED attempts

\* The import of a route module, or its default() call, settles.
routeSettled(w, i, ok) ==
  /\ Running
  /\ w \in 1..spawned
  /\ i \in 1..Len(attempts[w])
  /\ attempts[w][i] = "pending"
  /\ attempts' = [attempts EXCEPT ![w][i] = IF ok THEN "fulfilled" ELSE "rejected"]
  /\ UNCHANGED <<env, initVars, cfgVars, warnings, busVars, resVars, coreVars>>

RegistrationCompleteAllFulfilled(w) ==
  \A i \in 1..Len(attempts[w]) : attempts[w][i] = "fulfilled"

RegistrationCompleteOnFirstFailure(w) ==
  \/ \A i \in 1..Len(attempts[w]) : attempts[w][i] = "fulfilled"
  \/ \E i \in 1..Len(attempts[w]) : attempts[w][i] = "rejected"

\* await Promise.allSettled(pendingPromises) resumes
RegistrationComplete(w) ==
  \A i \in 1..Len(attempts[w]) : attempts[w][i] # "pending"

\* Process p has a listener for messages of the type.
Listens(p, type) == \E i \in 1..Len(listeners[p]) : listeners[p][i].type = type

\* The worker's bridge (setupMessageBox) dispatches the next inbound message:
\* 'startup' starts runWorker, 'shutdown' starts the setupProcess listener.
workerDispatch(w) ==
  /\ Running
  /\ w \in 1..spawned
  /\ workerRead[w] < Len(toWorker[w])
  /\ workerRead' = [workerRead EXCEPT ![w] = @ + 1]
  /\ LET data == toWorker[w][workerRead[w] + 1] IN
     /\ emitted' = [emitted EXCEPT ![w] =
                      Append(@, Emission(w, listeners[w], data.type, PayloadOf(data)))]
     /\ CASE data.type = "startup" /\ Listens(w, "startup") ->
               /\ runWorker(w, PayloadOf(data))
               /\ UNCHANGED runs
          [] data.type = "shutdown" /\ Listens(w, "shutdown") ->
               /\ \E r \in StartedRuns("runExitHandlers", exitHandlers[w]) :
                    AddRun(w, r)
               /\ UNCHANGED <<serveState, attempts>>
          [] OTHER -> UNCHANGED <<runs, serveState, attempts>>
  /\ UNCHANGED <<env, initVars, cfgVars, warnings, listeners, resVars, bootVars, toWorker, exitStatus, loadedExits, poolSetup,
                 workerCount, shutdownCount, signalsSeen, regVars, toPrimary,
                 primaryRead>>

\* The router name of attempt i of worker w: the worker's first message is
\* the startup message execute() posts when it constructs the worker.
AttemptName(w, i) == toWorker[w][1].routerNames[i]

\* The value a failed attempt rejects with. The module 'root' imports and its
\* registration function throws an Error of its own; any other module fails
\* to resolve, and the runtime's error names the specifier.
RejectionReason(name) ==
  IF name = "root"
    THEN [kind |-> "Error", message |-> "boom"]
    ELSE [kind |-> "ResolveMessage", specifier |-> name]

\* results.forEach: console.warn('Route registration failed:', result.reason)
\* for each rejected result, in the order of pendingPromises.
RejectionWarnings(w) ==
  LET rejected == SelectSeq([i \in 1..Len(attempts[w]) |-> i],
                            LAMBDA i : attempts[w][i] = "rejected") IN
  [j \in 1..Len(rejected) |->
     [label |-> "Route registration failed:",
      reason |-> RejectionReason(AttemptName(w, rejected[j]))]]

\* worker.ts runWorker, after Promise.allSettled(pendingPromises): serve()
serve(w) ==
  /\ Running
  /\ w \in 1..spawned
  /\ serveState[w] = "registering"
  /\ RegistrationComplete(w)
  /\ warnings' = [warnings EXCEPT ![w] = @ \o RejectionWarnings(w)]
  /\ serveState' = [serveState EXCEPT ![w] = "serving"]
  /\ UNCHANGED <<env, initVars, cfgVars, attempts, busVars, resVars, bootVars, toWorker, workerRead, exitStatus, loadedExits,
                 poolSetup, workerCount, shutdownCount, signalsSeen, regVars,
                 runs, toPrimary, primaryRead>>

\* What follows a resolved runExitHandlers() in process p: the primary's
\* .then callback exits; the worker's listener posts shutdown-complete.
Finish(p, r) ==
  /\ SetRun(p, r, [r EXCEPT !.pc = "resolved"])
  /\ IF p = Primary
       THEN /\ exitStatus' = "exit0"
            /\ UNCHANGED toPrimary
       ELSE /\ UNCHANGED exitStatus
            /\ toPrimary' = [toPrimary EXCEPT ![p] =
                 Append(@, toMessage("shutdown-complete", EmptyMap))]

\* The promises of the called handlers have settled and run i of process p
\* resumes: Promise.all (loadExits) or Promise.allSettled followed by the
\* first step of closeInstanceConnections (runExitHandlers).
handlersSettled(p, r) ==
  /\ Running
  /\ p \in Live
  /\ r \in RunsOf(p)
  /\ r.pc = "settling"
  /\ IF r.kind = "loadExits"
       THEN /\ IF r.rejects
                 THEN /\ SetRun(p, r, [r EXCEPT !.pc = "rejected"])
                      /\ UNCHANGED exitStatus
                 ELSE /\ SetRun(p, r, [r EXCEPT !.pc = "resolved"])
                      /\ exitStatus' = "exit0"
            /\ UNCHANGED toPrimary
       ELSE IF connectionPool[p] = 0
              THEN Finish(p, r)
              ELSE /\ SetRun(p, r, [r EXCEPT !.pc = "closing", !.closeCalled = 1])
                   /\ UNCHANGED <<exitStatus, toPrimary>>
  /\ UNCHANGED <<env, initVars, cfgVars, extVars, bootVars, toWorker, workerRead, loadedExits, poolSetup,
                 workerCount, shutdownCount, signalsSeen, regVars, primaryRead,
                 serveState>>

\* closeInstanceConnections: the awaited connection.close() settles; ok says
\* whether it fulfilled. A rejection leaves the for-of loop and the function.
closeSettled(p, r, ok) ==
  /\ Running
  /\ p \in Live
  /\ r \in RunsOf(p)
  /\ r.pc = "closing"
  /\ IF ~ok
       THEN /\ SetRun(p, r, [r EXCEPT !.pc = "rejected"])
            /\ UNCHANGED <<exitStatus, toPrimary>>
       ELSE IF r.closeCalled < connectionPool[p]
              THEN /\ SetRun(p, r, [r EXCEPT !.closeCalled = @ + 1])
                   /\ UNCHANGED <<exitStatus, toPrimary>>
              ELSE Finish(p, r)
  /\ UNCHANGED <<env, initVars, cfgVars, extVars, bootVars, toWorker, workerRead, loadedExits, poolSetup,
                 workerCount, shutdownCount, signalsSeen, regVars, primaryRead,
                 serveState>>

StillWaitingNever(count, total) == FALSE

\* if (shutdownCount < workerCount) return
StillWaiting(count, total) == count < total

\* handleWorkerMessage: the primary handles the next message of worker w.
handleWorkerMessage(w) ==
  /\ Running
  /\ poolSetup
  /\ w \in PoolWorkers
  /\ primaryRead[w] < Len(toPrimary[w])
  /\ primaryRead' = [primaryRead EXCEPT ![w] = @ + 1]
  /\ LET data == toPrimary[w][primaryRead[w] + 1] IN
     IF data.type # "shutdown-complete"
       THEN /\ emitted' = [emitted EXCEPT ![Primary] =
                   Append(@, Emission(Primary, listeners[Primary], data.type,
                                      PayloadOf(data)))]
            /\ UNCHANGED <<shutdownCount, runs>>
       ELSE /\ UNCHANGED emitted
            /\ shutdownCount' = shutdownCount + 1
            /\ IF StillWaiting(shutdownCount + 1, workerCount)
                 THEN UNCHANGED runs
                 ELSE \E r \in StartedRuns("runExitHandlers", exitHandlers[Primary]) :
                        AddRun(Primary, r)
  /\ UNCHANGED <<env, initVars, cfgVars, attempts, warnings, listeners, resVars, bootVars, toWorker,
                 workerRead, exitStatus, loadedExits,
                 poolSetup, workerCount, signalsSeen, regVars, toPrimary,
                 serveState>>

\* A rejected run has no rejection handler: the runtime may report the
\* unhandled rejection by ending the process with a non-zero status.
unhandledRejection ==
  /\ Running
  /\ \E p \in Live : \E r \in RunsOf(p) : r.pc = "rejected"
  /\ exitStatus' = "exit1"
  /\ UNCHANGED <<env, initVars, cfgVars, extVars, bootVars, toWorker, workerRead, loadedExits, poolSetup,
                 workerCount, shutdownCount, signalsSeen, regVars, runs,
                 toPrimary, primaryRead, serveState>>

\* --------------------------------------------------------------- message bus
\* The onMessage calls of application code so far.
UserListeners ==
  SumOver([p \in Procs |-> Len(SelectSeq(listeners[p], LAMBDA l : l.type \in UserTypes))],
          Procs)

\* instance.ts onMessage(type, listener), in process p
onMessage(p, type, throws) ==
  /\ Running
  /\ p \in Live
  /\ UserListeners < MaxListeners
  /\ listeners' = [listeners EXCEPT ![p] = Append(@, Listener(type, throws))]
  /\ UNCHANGED <<env, initVars, cfgVars, coreVars, attempts, warnings, emitted, resVars>>

\* The application messages posted so far, in either direction.
Posts ==
  SumOver([w \in WorkerIds |-> Len(SelectSeq(toWorker[w], LAMBDA d : d \in WireMessages))
                               + Len(SelectSeq(toPrimary[w], LAMBDA d : d \in WireMessages))],
          WorkerIds)

\* Code of worker w calls self.postMessage(data).
workerPost(w, data) ==
  /\ Running
  /\ w \in 1..spawned
  /\ Posts < MaxPosts
  /\ toPrimary' = [toPrimary EXCEPT ![w] = Append(@, data)]
  /\ UNCHANGED <<env, initVars, cfgVars, extVars, bootVars, toWorker, workerRead, exitStatus,
                 loadedExits, poolSetup, workerCount, shutdownCount, signalsSeen,
                 regVars, runs, primaryRead, serveState>>

\* Code of the primary calls worker.postMessage(data) on a handle of the pool.
postToWorker(w, data) ==
  /\ Running
  /\ w \in PoolWorkers
  /\ Posts < MaxPosts
  /\ toWorker' = [toWorker EXCEPT ![w] = Append(@, data)]
  /\ UNCHANGED <<env, initVars, cfgVars, extVars, bootVars, workerRead, exitStatus,
                 loadedExits, poolSetup, workerCount, shutdownCount, signalsSeen,
                 regVars, runs, toPrimary, primaryRead, serveState>>

\* A message of worker w arrives while its handle has no onmessage handler
\* (setupWorkerPool was not called): the message event has no listener.
dropWorkerMessage(w) ==
  /\ Running
  /\ ~poolSetup
  /\ w \in PoolWorkers
  /\ primaryRead[w] < Len(toPrimary[w])
  /\ primaryRead' = [primaryRead EXCEPT ![w] = @ + 1]
  /\ UNCHANGED <<env, initVars, cfgVars, extVars, bootVars, toWorker, workerRead, exitStatus,
                 loadedExits, poolSetup, workerCount, shutdownCount, signalsSeen,
                 regVars, runs, toPrimary, serveState>>

\* An exception that left handleWorkerMessage is uncaught in the primary: the
\* runtime may end the process with a non-zero status.
uncaughtException ==
  /\ Running
  /\ \E i \in 1..Len(emitted[Primary]) : emitted[Primary][i].threw
  /\ exitStatus' = "exit1"
  /\ UNCHANGED <<env, initVars, cfgVars, extVars, bootVars, toWorker, workerRead, loadedExits, poolSetup,
                 workerCount, shutdownCount, signalsSeen, regVars, runs,
                 toPrimary, primaryRead, serveState>>

\* ----------------------------------------------------------------- resources
\* A resource object: the instanceContext key it is made for and its place in
\* the ConnectionPool of its process (0: it was not added to the pool).
Instance(name, pooled) == [name |-> name, pooled |-> pooled]

\* A call of a resource getter in a process:
\*   pc      "connect": awaiting amqp.connect; "channel": awaiting
\*           createChannel; "done": the call has returned
\*   result  the index in instances[p] of the object returned (0: none yet)
\*   after   the calls of the process that had returned when this one began
Call(name, pc, result, after) ==
  [name |-> name, pc |-> pc, result |-> result, after |-> after]

CallsMade == SumOver([p \in Procs |-> Len(calls[p])], Procs)
Returned(p) == {c \in 1..Len(calls[p]) : calls[p][c].pc = "done"}

\* if (instanceContext.has(name)) return instanceContext.get(name)
Has(p, name) == name \in DOMAIN registry[p]

\* A synchronous getter: useCache (addsToPool FALSE) or useMySQL (TRUE).
useSync(p, name, addsToPool) ==
  /\ Running
  /\ p \in Live
  /\ CallsMade < MaxCalls
  /\ IF Has(p, name)
       THEN /\ calls' = [calls EXCEPT ![p] =
                   Append(@, Call(name, "done", registry[p][name], Returned(p)))]
            /\ UNCHANGED <<instances, registry, connectionPool>>
       ELSE LET made == Len(instances[p]) + 1
                pooled == IF addsToPool THEN connectionPool[p] + 1 ELSE 0 IN
            /\ instances' = [instances EXCEPT ![p] = Append(@, Instance(name, pooled))]
            /\ connectionPool' = [connectionPool EXCEPT ![p] =
                                    IF addsToPool THEN @ + 1 ELSE @]
            /\ registry' = [registry EXCEPT ![p] = MapSet(@, name, made)]
            /\ calls' = [calls EXCEPT ![p] =
                   Append(@, Call(name, "done", made, Returned(p)))]
  /\ UNCHANGED <<env, initVars, cfgVars, attempts, warnings, busVars, bootVars, toWorker, workerRead, exitStatus,
                 loadedExits, poolSetup, workerCount, shutdownCount, signalsSeen,
                 exitHandlers, runs, toPrimary, primaryRead, serveState>>

\* cache.ts useCache(), in process p
useCache(p) == useSync(p, "Cache", FALSE)

\* mysql layer useMySQL(), in process p
useMySQL(p) == useSync(p, "MySQL", TRUE)

\* queue.ts useQueue(), in process p, up to its first await
useQueue(p) ==
  /\ Running
  /\ p \in Live
  /\ CallsMade < MaxCalls
  /\ calls' = [calls EXCEPT ![p] =
        Append(@, IF Has(p, "Queue")
                    THEN Call("Queue", "done", registry[p]["Queue"], Returned(p))
                    ELSE Call("Queue", "connect", 0, Returned(p)))]
  /\ UNCHANGED <<env, initVars, cfgVars, attempts, warnings, busVars, instances, registry, coreVars>>

\* useQueue call c of process p resumes: after amqp.connect it awaits
\* createChannel; after createChannel it constructs the Queue, stores it
\* under 'Queue' and returns it.
amqpSettled(p, c) ==
  /\ Running
  /\ p \in Live
  /\ c \in 1..Len(calls[p])
  /\ calls[p][c].pc \in {"connect", "channel"}
  /\ IF calls[p][c].pc = "connect"
       THEN /\ calls' = [calls EXCEPT ![p][c].pc = "channel"]
            /\ UNCHANGED <<instances, registry>>
       ELSE LET made == Len(instances[p]) + 1 IN
            /\ instances' = [instances EXCEPT ![p] = Append(@, Instance("Queue", 0))]
            /\ registry' = [registry EXCEPT ![p] = MapSet(@, "Queue", made)]
            /\ calls' = [calls EXCEPT ![p][c].pc = "done", ![p][c].result = made]
  /\ UNCHANGED <<env, initVars, cfgVars, attempts, warnings, busVars, coreVars>>

\* serve({ fetch, reusePort: true }): a request reaches the listener of
\* worker w and its route handler calls useMySQL(). Nothing in the worker
\* stops the listener.
request(w) ==
  /\ w \in WorkerIds
  /\ serveState[w] = "serving"
  /\ useMySQL(w)

\* ------------------------------------------------------------ module loading
GetRecord(key) ==
  [key |-> key, threw |-> get(processEnv, key).threw,
   value |-> get(processEnv, key).value]

\* The primary evaluates its modules: app.ts imports instance.ts, whose top
\* level calls get('INSTANCE_URL'); an exception there ends the process
\* before app.ts reaches invokeApp().
loadPrimary ==
  /\ exitStatus = "loading"
  /\ lastGet' = GetRecord("INSTANCE_URL")
  /\ exitStatus' = IF get(processEnv, "INSTANCE_URL").threw THEN "exit1" ELSE "running"
  /\ UNCHANGED <<env, initVars, processEnv, extVars, bootVars, toWorker, workerRead,
                 loadedExits, poolSetup, workerCount, shutdownCount, signalsSeen,
                 regVars, runs, toPrimary, primaryRead, serveState>>

\* Code of process p calls get(key): the top level of cache.ts when a route
\* module of a worker imports it, or any other caller.
getCall(p, key) ==
  /\ Running
  /\ p \in Live
  /\ lastGet' = GetRecord(key)
  /\ UNCHANGED <<env, initVars, processEnv, extVars, coreVars>>

\* The shutdown protocol: execute(), the registrations (made before the first
\* termination signal), setupWorkerPool, signals, and every exit-handler run.
Next ==
  \/ executeCall
  \/ executeSpawn
  \/ \E p \in Procs : signalsSeen = 0 /\ onExit(p)
  \/ \E p \in Procs : signalsSeen = 0 /\ addInstanceConnection(p)
  \/ \E n \in 1..MaxLoadedExits : loadExits(n)
  \/ setupWorkerPool
  \/ signal
  \/ \E w \in WorkerIds : workerDispatch(w)
  \/ \E p \in Procs : \E r \in RunsOf(p) : handlersSettled(p, r)
  \/ \E p \in Procs : \E r \in RunsOf(p) : \E ok \in BOOLEAN : closeSettled(p, r, ok)
  \/ \E w \in WorkerIds : handleWorkerMessage(w)
  \/ unhandledRejection

\* A worker-count override of 1..MaxCores.
Init == InitOver({<<ToString(n)>> : n \in 1..MaxCores}, {1})
Spec == Init /\ [][Next]_vars

\* The startup handoff, for every override text and hardware concurrency:
\* configuration, execute(), setupWorkerPool, termination signals, and each
\* worker's handling of its inbox up to the start of its shutdown listener.
InitStartup == InitWith({Absent} \cup {<<s>> : s \in CoreTexts}, 0..MaxCores, BOOLEAN)
NextStartup ==
  \/ \E names \in RouteLists : loadRoutes(names)
  \/ executeCall
  \/ executeSpawn
  \/ setupWorkerPool
  \/ signal
  \/ \E w \in WorkerIds : workerDispatch(w)
  \/ \E w \in WorkerIds : \E i \in 1..MaxRoutes : \E ok \in BOOLEAN :
       routeSettled(w, i, ok)
  \/ \E w \in WorkerIds : serve(w)
SpecStartup == InitStartup /\ [][NextStartup]_vars

\* The message bus: listeners registered in every process, application
\* messages in both directions, and the shutdown handshake.
NextBus ==
  \/ executeCall
  \/ executeSpawn
  \/ setupWorkerPool
  \/ \E p \in Procs : \E t \in UserTypes : \E throws \in BOOLEAN :
       signalsSeen = 0 /\ onMessage(p, t, throws)
  \/ \E w \in WorkerIds : \E data \in AppMessages : workerPost(w, data)
  \/ \E w \in WorkerIds : \E data \in AppMessages : postToWorker(w, data)
  \/ signal
  \/ \E w \in WorkerIds : workerDispatch(w)
  \/ \E p \in Procs : \E r \in RunsOf(p) : handlersSettled(p, r)
  \/ \E w \in WorkerIds : handleWorkerMessage(w)
  \/ \E w \in WorkerIds : dropWorkerMessage(w)
  \/ uncaughtException
InitBus == InitOver({<<"1">>}, {1})
SpecBus == InitBus /\ [][NextBus]_vars

\* The wire: toMessage(t, p) of every type and payload posted in both
\* directions and taken apart by the receiving side's bridge.
NextWire ==
  \/ executeCall
  \/ executeSpawn
  \/ setupWorkerPool
  \/ \E p \in Procs : \E t \in UserTypes : onMessage(p, t, FALSE)
  \/ \E w \in WorkerIds : \E t \in UserTypes : \E p \in WirePayloads :
       workerPost(w, toMessage(t, p))
  \/ \E w \in WorkerIds : \E t \in UserTypes : \E p \in WirePayloads :
       postToWorker(w, toMessage(t, p))
  \/ \E w \in WorkerIds : workerDispatch(w)
  \/ \E w \in WorkerIds : handleWorkerMessage(w)
SpecWire == InitBus /\ [][NextWire]_vars

\* The resource getters of every process (called before the first termination
\* signal) and the shutdown handshake that closes the pooled connections.
NextResources ==
  \/ executeCall
  \/ executeSpawn
  \/ setupWorkerPool
  \/ \E p \in Procs : signalsSeen = 0 /\ useCache(p)
  \/ \E p \in Procs : signalsSeen = 0 /\ useMySQL(p)
  \/ \E p \in Procs : signalsSeen = 0 /\ useQueue(p)
  \/ \E p \in Procs : \E c \in 1..MaxCalls : amqpSettled(p, c)
  \/ signal
  \/ \E w \in WorkerIds : workerDispatch(w)
  \/ \E p \in Procs : \E r \in RunsOf(p) : handlersSettled(p, r)
  \/ \E p \in Procs : \E r \in RunsOf(p) : \E ok \in BOOLEAN : closeSettled(p, r, ok)
  \/ \E w \in WorkerIds : handleWorkerMessage(w)
InitResources == InitOver({<<"1">>}, {1})

\* Start-up under every environment: the primary's module load, execute(),
\* the workers' handling of startup, and get(key) calls in every process.
NextConfig ==
  \/ loadPrimary
  \/ \E p \in Procs : \E key \in ConfigKeys : getCall(p, key)
  \/ executeCall
  \/ executeSpawn
  \/ \E w \in WorkerIds : workerDispatch(w)
InitConfig ==
  InitAll({<<ToString(n)>> : n \in 1..MaxCores}, {1}, {TRUE}, ProcessEnvs, "loading")
SpecConfig == InitConfig /\ [][NextConfig]_vars

SpecResources == InitResources /\ [][NextResources]_vars

\* The init phase: loadInits calls at any time, the settling of the handlers'
\* promises, execute() and what follows it.
NextInits ==
  \/ \E handlers \in InitHandlerLists : loadInits(handlers)
  \/ \E i \in 1..MaxInits : \E ok \in BOOLEAN : initSettled(i, ok)
  \/ executeCall
  \/ executeSpawn
  \/ executeRejected
  \/ setupWorkerPool
  \/ \E w \in WorkerIds : workerDispatch(w)
InitInits == InitWith({<<ToString(n)>> : n \in 1..MaxCores}, {1}, BOOLEAN)
SpecInits == InitInits /\ [][NextInits]_vars

\* The life of a worker: its startup message, route registration, serving
\* requests, and the shutdown handshake, for any timing of the signals.
NextServing ==
  \/ \E names \in RouteLists : loadRoutes(names)
  \/ executeCall
  \/ executeSpawn
  \/ setupWorkerPool
  \/ signal
  \/ \E w \in WorkerIds : workerDispatch(w)
  \/ \E w \in WorkerIds : \E i \in 1..MaxRoutes : \E ok \in BOOLEAN :
       routeSettled(w, i, ok)
  \/ \E w \in WorkerIds : serve(w)
  \/ \E w \in WorkerIds : request(w)
  \/ \E p \in Procs : \E r \in RunsOf(p) : handlersSettled(p, r)
  \/ \E p \in Procs : \E r \in RunsOf(p) : \E ok \in BOOLEAN : closeSettled(p, r, ok)
  \/ \E w \in WorkerIds : handleWorkerMessage(w)
InitServing == InitOver({<<"1">>}, {1})
SpecServing == InitServing /\ [][NextServing]_vars

\* ------------------------------------------------------------------ properties
CountType(msgs, type) == Cardinality({i \in 1..Len(msgs) : msgs[i].type = type})

\* shutdown-complete messages worker w has posted
AcksSent(w) == CountType(toPrimary[w], "shutdown-complete")

\* shutdown messages the bridge of worker w has dispatched
ShutdownsDispatched(w) ==
  CountType(SubSeq(toWorker[w], 1, workerRead[w]), "shutdown")

Pending(r) == r.pc \in {"settling", "closing"}
Settled(r) == r.pc \in {"rejected", "resolved"}

\* Nothing the event loops still have to do: no run awaits a promise and no
\* posted message waits for its handler.
Quiescent ==
  /\ execState # "awaitInit"
  /\ \A p \in Live : \A r \in RunsOf(p) : ~Pending(r)
  /\ \A w \in 1..spawned : workerRead[w] = Len(toWorker[w])
  /\ poolSetup => \A w \in PoolWorkers : primaryRead[w] = Len(toPrimary[w])

\* C1: the primary starts running its own exit handlers (and exits with
\* status 0) only if every worker of the WorkerPool has sent shutdown-complete.
C1_ExitOnlyAfterAllAcks ==
  (RunsOf(Primary) # {} \/ exitStatus = "exit0")
    => \A w \in PoolWorkers : AcksSent(w) >= 1

\* C2: in any execution each worker is sent at most one shutdown message,
\* however many termination signals arrive.
C2_AtMostOneShutdown ==
  \A w \in WorkerIds : CountType(toWorker[w], "shutdown") <= 1

\* After a signal, the primary has handled a shutdown-complete of every worker.
AllAcksHandled ==
  /\ poolSetup
  /\ signalsSeen >= 1
  /\ \A w \in PoolWorkers : primaryRead[w] >= 1

\* C3: once the primary has handled shutdown-complete from each worker of the
\* pool, it ends having run its exit handlers, closed its connections and
\* exited with status 0: when nothing is left to do, that has happened.
C3_AckedThenExitZero ==
  (AllAcksHandled /\ Quiescent)
    => /\ exitStatus = "exit0"
       /\ \E r \in RunsOf(Primary) :
            /\ r.kind = "runExitHandlers"
            /\ r.pc = "resolved"
            /\ r.invoked = r.of
            /\ r.closeCalled = connectionPool[Primary]

\* C4: a worker that has received shutdown messages has, once none of its
\* shutdown listeners is still running, sent a shutdown-complete for each.
C4_ShutdownThenAck ==
  \A w \in 1..spawned :
    (\A r \in RunsOf(w) : ~Pending(r)) => AcksSent(w) >= ShutdownsDispatched(w)

\* C5: when closeInstanceConnections has ended, close was called on every
\* connection of the pool, and it ended by returning, not by throwing.
C5_CloseAllClosesAll ==
  \A p \in Live : \A r \in RunsOf(p) :
    (r.closeCalled > 0 /\ Settled(r))
      => (r.closeCalled = connectionPool[p] /\ r.pc = "resolved")

\* The runs of process p whose promise has settled.
SettledRuns(p) ==
  SumOver([r \in RunsOf(p) |-> IF Settled(r) THEN CopiesIn(r, runs[p]) ELSE 0],
          RunsOf(p))

\* C6: a run whose connection close failed still ends the shutdown of its
\* process: a worker has posted a shutdown-complete for it, the primary has
\* exited.
C6_CloseFailureDoesNotBlock ==
  \A p \in Live :
    (\E r \in RunsOf(p) : r.pc = "rejected" /\ r.closeCalled > 0)
      => IF p = Primary
           THEN exitStatus # "running"
           ELSE AcksSent(p) >= SettledRuns(p)

\* C7: every run calls every handler of the array it maps over, whatever a
\* handler throws or rejects with, and runExitHandlers then enters its
\* connection-close phase.
C7_HandlerFailureIsolated ==
  \A p \in Live : \A r \in RunsOf(p) :
    /\ r.invoked = r.of
    /\ r.kind = "runExitHandlers" => ~(r.pc = "rejected" /\ r.closeCalled = 0)

\* C8: for a worker-count override that is the text of a positive integer N,
\* execute() resolves to a pool of exactly N handles keyed worker#0..worker#(N-1).
C8_PoolOfOverrideSize ==
  \A n \in 1..MaxCores :
    (execState = "resolved" /\ env.cores = <<ToString(n)>>)
      => /\ DOMAIN workerPool = {"worker#" \o ToString(i) : i \in 0..(n - 1)}
         /\ Cardinality(PoolWorkers) = n
         /\ spawned = n
C8_Witness ==
  /\ execState = "resolved"
  /\ env.cores = <<ToString(MaxCores)>>
  /\ Cardinality(DOMAIN workerPool) = MaxCores

PositiveOverrides == {<<ToString(n)>> : n \in 1..MaxCores}

\* C9: the worker count decided by execute() is the override when that is the
\* text of a positive integer, else the hardware concurrency when that is at
\* least 1, else 1; it is never below 1.
C9_DecidedWorkerCount ==
  execState = "resolved"
    => /\ executeWorkerCount >= 1
       /\ env.cores \in PositiveOverrides
            => env.cores = <<ToString(executeWorkerCount)>>
       /\ env.cores \notin PositiveOverrides
            => executeWorkerCount = (IF env.hw >= 1 THEN env.hw ELSE 1)
C9_Witness ==
  /\ execState = "resolved"
  /\ env.cores = <<"0">>
  /\ env.hw = 0
  /\ executeWorkerCount = 1

StartupMessages(w) ==
  {i \in 1..Len(toWorker[w]) : toWorker[w][i].type = "startup"}

\* C10: every spawned worker is sent exactly one startup message, and each
\* such message carries the entries the StartupContext had when spawning began.
C10_OneIdenticalStartup ==
  \A w \in 1..spawned :
    /\ Cardinality(StartupMessages(w)) = 1
    /\ \A i \in StartupMessages(w) : PayloadOf(toWorker[w][i]) = contextAtSpawn
C10_Witness ==
  /\ spawned = 2
  /\ contextAtSpawn # EmptyMap
  /\ workerStartupContext # contextAtSpawn
  /\ workerRead[2] = 1

\* worker.onmessage of handle w is handleWorkerMessage.
HandlerInstalled(w) == poolSetup /\ w \in PoolWorkers

\* C11: once execute() has resolved, every worker handle of the pool has the
\* primary's inbound message handler installed.
C11_HandlersInstalledOnResolve ==
  execState = "resolved" => \A w \in PoolWorkers : HandlerInstalled(w)

\* close() calls made so far by the exit-handler runs of process p.
ClosesBy(p) ==
  SumOver([r \in RunsOf(p) |-> r.closeCalled * CopiesIn(r, runs[p])], RunsOf(p))

ShutdownMessage == [type |-> "shutdown"]

\* C12: a termination signal appends one shutdown message to the channel of
\* every worker of the pool, and the step changes neither the shutdown counter
\* nor the primary's connections nor the number of close() calls.
C12_SignalBroadcasts ==
  [][signalsSeen' = signalsSeen + 1 =>
       /\ \A w \in PoolWorkers : toWorker'[w] = Append(toWorker[w], ShutdownMessage)
       /\ shutdownCount' = shutdownCount
       /\ connectionPool'[Primary] = connectionPool[Primary]
       /\ ClosesBy(Primary)' = ClosesBy(Primary)]_vars

LastEmitted(p) == emitted[p][Len(emitted[p])]

\* C13: when the primary's handler takes a worker message, a message that is
\* not shutdown-complete is emitted once on the primary's bus with its type
\* and its payload and the counter stays; a shutdown-complete adds exactly 1 to
\* the counter and nothing is emitted.
C13_WorkerMessageEffect ==
  [][\A w \in WorkerIds :
       (poolSetup /\ primaryRead'[w] = primaryRead[w] + 1) =>
         LET data == toPrimary[w][primaryRead[w] + 1] IN
         IF data.type # "shutdown-complete"
           THEN /\ shutdownCount' = shutdownCount
                /\ Len(emitted'[Primary]) = Len(emitted[Primary]) + 1
                /\ SubSeq(emitted'[Primary], 1, Len(emitted[Primary])) = emitted[Primary]
                /\ \E t \in UserTypes :
                     /\ data = toMessage(t, PayloadFor(t))
                     /\ LastEmitted(Primary)'.type = t
                     /\ LastEmitted(Primary)'.payload = PayloadFor(t)
           ELSE /\ shutdownCount' = shutdownCount + 1
                /\ emitted' = emitted]_vars

C13_Witness ==
  /\ shutdownCount = 1
  /\ \E i \in 1..Len(emitted[Primary]) :
       /\ emitted[Primary][i].type = "ping"
       /\ emitted[Primary][i].payload = [n |-> "1"]

\* The indices of the listeners of type t in listener array ls, in the order
\* of their registration.
OfType(ls, t) == SelectSeq([i \in 1..Len(ls) |-> i], LAMBDA i : ls[i].type = t)
Range(q) == {q[i] : i \in 1..Len(q)}

\* C18: on every emit, each listener registered for the type is called and no
\* exception leaves the emit.
C18_ListenerFailureIsolated ==
  [][\A p \in Procs :
       Len(emitted'[p]) = Len(emitted[p]) + 1 =>
         /\ ~LastEmitted(p)'.threw
         /\ Range(LastEmitted(p)'.called) =
              Range(OfType(listeners[p], LastEmitted(p)'.type))]_vars

\* C19: on every emit, the listeners called are all the listeners registered
\* for the type, in the order of their registration, and no other listener.
C19_AllListenersInOrder ==
  [][\A p \in Procs :
       Len(emitted'[p]) = Len(emitted[p]) + 1 =>
         LastEmitted(p)'.called = OfType(listeners[p], LastEmitted(p)'.type)]_vars

\* C20: a worker that has started its HTTP listener has no route import or
\* registration attempt still pending.
C20_ServeAfterAllSettled ==
  \A w \in WorkerIds :
    serveState[w] = "serving" =>
      \A i \in 1..Len(attempts[w]) : attempts[w][i] \in {"fulfilled", "rejected"}

C20_Witness ==
  \E w \in WorkerIds :
    /\ serveState[w] = "serving"
    /\ Len(attempts[w]) = 2
    /\ attempts[w][1] = "rejected"
    /\ attempts[w][2] = "fulfilled"

ResourceNames == {"Cache", "MySQL", "Queue"}

\* The objects process p has constructed for resource name n.
Constructed(p, n) == {i \in 1..Len(instances[p]) : instances[p][i].name = n}

\* C14: in a process, a getter call that began after another call for the
\* same name had returned has returned the same object, and no more than one
\* object is ever constructed for a name.
C14_SequentialCallsSameInstance ==
  \A p \in Procs :
    /\ \A c1, c2 \in Returned(p) :
         (calls[p][c1].name = calls[p][c2].name /\ c1 \in calls[p][c2].after)
           => calls[p][c2].result = calls[p][c1].result
    /\ \A n \in ResourceNames : Cardinality(Constructed(p, n)) <= 1

\* Calls c1 and c2 of process p were both in progress at some moment.
Overlap(p, c1, c2) ==
  c1 # c2 /\ c1 \notin calls[p][c2].after /\ c2 \notin calls[p][c1].after

\* C15: getter calls for one name that were in progress together have made
\* one object between them and have all returned it.
C15_OverlappingCallsConstructOnce ==
  \A p \in Procs : \A c1, c2 \in Returned(p) :
    (calls[p][c1].name = calls[p][c2].name /\ Overlap(p, c1, c2))
      => calls[p][c1].result = calls[p][c2].result

\* C16: every resource object constructed is in the ConnectionPool of its
\* process.
C16_ConstructedIsPooled ==
  \A p \in Procs : \A i \in 1..Len(instances[p]) :
    instances[p][i].pooled \in 1..connectionPool[p]

\* close() calls made so far on object i of process p.
ClosesOn(p, i) ==
  IF instances[p][i].pooled = 0 THEN 0
  ELSE SumOver([r \in RunsOf(p) |->
                  IF r.closeCalled >= instances[p][i].pooled
                    THEN CopiesIn(r, runs[p]) ELSE 0], RunsOf(p))

\* The shutdown sequence of process p has completed.
ShutdownComplete(p) ==
  IF p = Primary THEN exitStatus = "exit0" ELSE AcksSent(p) >= 1

\* C17: no resource object is closed twice, and once the shutdown of its
\* process has completed each has been closed.
C17_ClosedExactlyOnce ==
  \A p \in Procs : \A i \in 1..Len(instances[p]) :
    /\ ClosesOn(p, i) <= 1
    /\ ShutdownComplete(p) => ClosesOn(p, i) = 1

\* C22: process.send('ready') is called at most once; it has been called only
\* when a supervisor channel exists, execute() has created all its workers and
\* each has its startup message; and once execute() has resolved it has been
\* called exactly when a supervisor channel exists.
C22_ReadyOnceAfterSpawn ==
  /\ readySent <= 1
  /\ readySent = 1 =>
       /\ env.ipc
       /\ spawned = executeWorkerCount
       /\ \A w \in 1..spawned : CountType(toWorker[w], "startup") = 1
  /\ execState = "resolved" => readySent = (IF env.ipc THEN 1 ELSE 0)

\* The ready notification is out while no worker has begun to register routes.
C22_Witness ==
  /\ readySent = 1
  /\ spawned = MaxCores
  /\ \A w \in 1..spawned : serveState[w] = "none" /\ workerRead[w] = 0

\* C22 as stated: once execute() has resolved, the ready notification has
\* been emitted exactly once.
C22_ReadyExactlyOnce == execState = "resolved" => readySent = 1

\* C26: once execute() has resolved, the pool has as many keys as the worker
\* count execute() decided, the count setupWorkerPool compares the shutdown
\* counter against is that number, and no later step changes any of them.
C26_PoolFixed ==
  /\ [](execState = "resolved" =>
          /\ Cardinality(DOMAIN workerPool) = executeWorkerCount
          /\ poolSetup => workerCount = executeWorkerCount)
  /\ [][execState = "resolved" =>
          /\ workerPool' = workerPool
          /\ executeWorkerCount' = executeWorkerCount
          /\ poolSetup => workerCount' = workerCount]_vars

C26_Witness ==
  /\ exitStatus = "exit0"
  /\ poolSetup
  /\ shutdownCount >= workerCount
  /\ Cardinality(DOMAIN workerPool) = MaxCores
  /\ workerCount = MaxCores

\* C29: a process has called close() on a connection only after its shutdown
\* began: a worker after its bridge dispatched a shutdown message, the primary
\* after the shutdown counter reached the worker count.
C29_CloseOnlyInShutdown ==
  \A p \in Procs :
    ClosesBy(p) > 0 =>
      IF p = Primary
        THEN poolSetup /\ shutdownCount >= workerCount
        ELSE ShutdownsDispatched(p) >= 1

C29_Witness ==
  /\ ClosesBy(Primary) > 0
  /\ \E w \in WorkerIds : ClosesBy(w) > 0
  /\ workerCount = MaxCores

\* C21: a worker whose route attempts have all settled, some of them failed,
\* goes on to start its listener; and when the listener has started every
\* attempt that succeeds has already registered its module.
C21_FailuresDoNotStopListener ==
  \A w \in 1..spawned :
    /\ ( /\ Running
         /\ serveState[w] = "registering"
         /\ \A i \in 1..Len(attempts[w]) : attempts[w][i] # "pending" )
         => ENABLED serve(w)
    /\ serveState[w] = "serving"
         => \A i \in 1..Len(attempts[w]) : attempts[w][i] # "pending"

C21_Witness ==
  \E w \in WorkerIds :
    /\ serveState[w] = "serving"
    /\ attempts[w] = <<"fulfilled", "rejected">>

\* C28: a spawned worker's first inbound message is dispatched to the startup
\* listener its script registered: while the primary runs the dispatch stays
\* possible, and once it happened runWorker has been called.
C28_StartupReachesListener ==
  \A w \in 1..spawned :
    /\ (Running /\ workerRead[w] = 0) => ENABLED workerDispatch(w)
    /\ workerRead[w] >= 1 =>
         /\ emitted[w][1].type = "startup"
         /\ \E j \in 1..Len(emitted[w][1].called) :
              listeners[w][emitted[w][1].called[j]].type = "startup"
         /\ serveState[w] # "none"

C28_Witness ==
  /\ spawned = MaxCores
  /\ \A w \in 1..spawned : serveState[w] = "serving"

\* The warning entry names the module: one of its values is the name.
NamesModule(entry, name) ==
  \E f \in DOMAIN entry.reason : entry.reason[f] = name

\* C30: when a worker has started its listener, each failed attempt has
\* exactly one warning entry naming its route module.
C30_WarningNamesModule ==
  \A w \in 1..spawned :
    serveState[w] = "serving" =>
      \A i \in 1..Len(attempts[w]) :
        attempts[w][i] = "rejected" =>
          Cardinality({j \in 1..Len(warnings[w]) :
                         NamesModule(warnings[w][j], AttemptName(w, i))}) = 1

\* Worker w posts a shutdown-complete in this step.
AckStep(w) ==
  /\ Len(toPrimary'[w]) = Len(toPrimary[w]) + 1
  /\ toPrimary'[w][Len(toPrimary'[w])].type = "shutdown-complete"

\* C25: when a worker posts shutdown-complete, none of its exit-handler runs
\* still awaits a handler or a close, and every resource object it has
\* constructed has been closed.
C25_AckAfterHandlersAndCloses ==
  [][\A w \in WorkerIds :
       AckStep(w) =>
         /\ \A r \in RunsOf(w)' : ~Pending(r)
         /\ \A i \in 1..Len(instances[w]) : ClosesOn(w, i)' >= 1]_vars

\* C23: a worker exists, or a startup message has been sent, only when every
\* required configuration key is set.
C23_NoWorkerWhileConfigMissing ==
  (spawned > 0 \/ \E w \in WorkerIds : toWorker[w] # <<>>)
    => \A key \in ConfigKeys : processEnv[key] # Absent

\* C27: a get(key) call has thrown exactly when the key is not set; otherwise
\* it returned the empty string for the value _disabled_ and the value itself
\* for any other value.
C27_GetContract ==
  lastGet # <<>> =>
    LET v == processEnv[lastGet.key] IN
    /\ lastGet.threw <=> v = Absent
    /\ v # Absent =>
         lastGet.value = (IF v[1] = "_disabled_" THEN "" ELSE v[1])

C27_Witness ==
  /\ lastGet # <<>>
  /\ lastGet.key = "REDIS_URL"
  /\ processEnv["REDIS_URL"] = <<"_disabled_">>
  /\ ~lastGet.threw
  /\ lastGet.value = ""
  /\ processEnv["INSTANCE_URL"] = <<"">>

\* The bridge of process p has just emitted message data, built as
\* toMessage(t, payload): the emission has type t and that payload, and the
\* listeners called are the ones process p registered for t.
DeliveredAs(p, data) ==
  \A t \in UserTypes : \A payload \in WirePayloads :
    data = toMessage(t, payload) =>
      /\ LastEmitted(p)'.type = t
      /\ LastEmitted(p)'.payload = payload
      /\ \A i \in 1..Len(listeners[p]) :
           i \in Range(LastEmitted(p)'.called) <=> listeners[p][i].type = t

\* C24: every wire message toMessage(t, p) a bridge takes apart, in a worker
\* or in the primary, is emitted with type t and a payload equal to p, to the
\* listeners of type t and no others.
C24_WireRoundTrip ==
  [][\A w \in WorkerIds :
       /\ (workerRead'[w] = workerRead[w] + 1)
            => DeliveredAs(w, toWorker[w][workerRead[w] + 1])
       /\ (primaryRead'[w] = primaryRead[w] + 1)
            => DeliveredAs(Primary, toPrimary[w][primaryRead[w] + 1])]_vars

\* C31: the shutdown counter of the primary stays between 0 and the size of
\* the worker pool.
C31_CounterWithinPool ==
  poolSetup => (0 <= shutdownCount /\ shutdownCount <= Cardinality(DOMAIN workerPool))

\* The runExitHandlers runs the primary has started so far.
PrimaryExitRuns ==
  LET started == {r \in RunsOf(Primary) : r.kind = "runExitHandlers"} IN
  SumOver([r \in started |-> CopiesIn(r, runs[Primary])], started)

\* C32: the primary starts its runExitHandlers run at most once.
C32_PrimaryRunsOnce == PrimaryExitRuns <= 1

\* C33: a worker that has posted shutdown-complete does not start its HTTP
\* listener afterwards.
C33_NoServeAfterAck ==
  [][\A w \in WorkerIds :
       AcksSent(w) >= 1 =>
         ~(serveState[w] # "serving" /\ serveState'[w] = "serving")]_vars

\* C34: a registry getter call that returns in a worker returns an object on
\* which close() has not been called.
C34_NoClosedInstanceReturned ==
  [][\A w \in WorkerIds :
       (/\ Len(calls'[w]) = Len(calls[w]) + 1
        /\ calls'[w][Len(calls'[w])].pc = "done")
         => \A i \in 1..MaxCalls :
              calls'[w][Len(calls'[w])].result = i => ClosesOn(w, i)' = 0]_vars

\* The startup messages worker w has handled so far.
StartupsHandled(w) ==
  Cardinality({i \in 1..Len(emitted[w]) : emitted[w][i].type = "startup"})

\* C35: every worker created is sent one startup message and no worker is
\* sent more; a worker handles at most one, its pendingPromises holds one
\* promise per router name of that message and nothing else, and its listener
\* is started only out of that registration and at most once.
C35_OneStartupPerWorker ==
  /\ [](\A w \in WorkerIds :
         /\ CountType(toWorker[w], "startup") = (IF w \in 1..spawned THEN 1 ELSE 0)
         /\ StartupsHandled(w) <= 1
         /\ Len(attempts[w]) =
              (IF StartupsHandled(w) = 1 /\ "routerNames" \in DOMAIN toWorker[w][1]
                 THEN Len(toWorker[w][1].routerNames) ELSE 0))
  /\ [][\A w \in WorkerIds :
         /\ serveState[w] = "serving" => serveState'[w] = "serving"
         /\ (serveState[w] # "serving" /\ serveState'[w] = "serving")
              => (serveState[w] = "registering" /\ StartupsHandled(w) = 1)]_vars

C35_Witness ==
  /\ spawned = MaxCores
  /\ \A w \in 1..spawned :
       /\ serveState[w] = "serving"
       /\ Len(attempts[w]) = MaxRoutes
       /\ workerRead[w] = 2

\* C37: on every channel from the primary to a worker the first message is
\* the startup message: a shutdown message is sent, and handled, only after it.
C37_StartupBeforeShutdown ==
  \A w \in WorkerIds :
    /\ \A i \in 1..Len(toWorker[w]) :
         toWorker[w][i].type = "shutdown"
           => (i > 1 /\ toWorker[w][1].type = "startup")
    /\ \A i \in 1..Len(emitted[w]) :
         emitted[w][i].type = "shutdown"
           => (i > 1 /\ emitted[w][1].type = "startup")

C37_Witness ==
  /\ spawned = MaxCores
  /\ signalsSeen = MaxSignals
  /\ \A w \in 1..spawned :
       /\ Len(emitted[w]) = 1 + MaxSignals
       /\ emitted[w][2].type = "shutdown"

====
